---- MODULE Spec2Model ----
(***************************************************************************)
(* A model of imago's helpers.py: the field projector get_fields (with its *)
(* normalisation step fwrap), the cache-buster decorator and the GET       *)
(* handlers of PublicListEndpoint and PublicDetailEndpoint.                *)
(*                                                                         *)
(* Python strings are sequences of one-character strings, so that          *)
(* str.split and the "%s.%s" / "%s__%s" formats are computed, not assumed. *)
(* Python objects with an identity (the dicts and leaf objects of a        *)
(* serialize spec) are the nodes of a heap, and id(obj) is the node number.*)
(***************************************************************************)
EXTENDS Integers, Sequences, FiniteSets, TLC

VARIABLES
    heap,       \* the spec objects: node number -> node; node 1 is the root spec
    request,    \* the list of requested field strings of the current call
    result,     \* what get_fields returned or raised
    phase,      \* "idle" before the call, "done" after it
    http,       \* the HTTP request and what the data source holds for it
    out,        \* what the endpoint's handler ended with
    run         \* the call stack, memo and exception of a call run step by step

vars == <<heap, request, result, phase, http, out, run>>

----------------------------------------------------------------------------
(* Strings *)

Str(c) == <<c>>

Contains(s, c) == \E i \in 1..Len(s) : s[i] = c

FirstIndex(s, c) == CHOOSE i \in 1..Len(s) : s[i] = c /\ \A j \in 1..(i-1) : s[j] # c

(* field.split(".", 1) of a string that holds the separator *)
SplitOnce(s, c) ==
    LET i == FirstIndex(s, c)
    IN  <<SubSeq(s, 1, i - 1), SubSeq(s, i + 1, Len(s))>>

(* s.split(c): always at least one piece, "" gives [""] *)
RECURSIVE Split(_, _)
Split(s, c) ==
    IF ~Contains(s, c) THEN <<s>>
    ELSE LET p == SplitOnce(s, c) IN <<p[1]>> \o Split(p[2], c)

DotJoinBare(key, field) == field

(* "%s.%s" % (key, field) *)
DotJoin(key, field) == key \o <<".">> \o field

UnderJoinDot(key, x) == key \o <<".">> \o x

(* "%s__%s" % (key, x) *)
UnderJoin(key, x) == key \o <<"_", "_">> \o x

----------------------------------------------------------------------------
(* Ordered dicts: sequences of <<key, value>> in insertion order *)

HasKey(items, k) == \E i \in 1..Len(items) : items[i][1] = k

Get(items, k) == items[CHOOSE i \in 1..Len(items) : items[i][1] = k][2]

(* d[k] = v: an existing key keeps its position *)
Put(items, k, v) ==
    IF HasKey(items, k)
    THEN [i \in 1..Len(items) |-> IF items[i][1] = k THEN <<k, v>> ELSE items[i]]
    ELSE Append(items, <<k, v>>)

----------------------------------------------------------------------------
(* The heap of spec objects.  A node is a dict (its items name other nodes)*)
(* or a non-dict leaf object (a callable, True, ...).                      *)

DictNode(items) == [dict |-> TRUE, items |-> items]
OpaqueNode == [dict |-> FALSE, items |-> <<>>]

A == Str("a")
B == Str("b")
FIELDS == <<"f", "i", "e", "l", "d", "s">>

(* Values that get_fields and fwrap handle: None, an object of the heap    *)
(* (returned as it is), a new {"fields": [...]} dict, a new plain dict.    *)
NoneId == 0
FreshId == -1
None == [k |-> "none", id |-> NoneId, items |-> <<>>]
Ref(n) == [k |-> "ref", id |-> n, items |-> <<>>]
Wrapped(items) == [k |-> "wrap", id |-> FreshId, items |-> items]
NewDict(items) == [k |-> "dict", id |-> FreshId, items |-> items]

(* isinstance(obj, dict) *)
IsDict(h, obj) ==
    CASE obj.k = "ref" -> h[obj.id].dict
      [] obj.k = "none" -> FALSE
      [] OTHER -> TRUE

(* obj.items() of a dict that is not a {"fields": ...} wrapper *)
ItemsOf(h, obj) ==
    IF obj.k = "ref"
    THEN [i \in 1..Len(h[obj.id].items) |->
             <<h[obj.id].items[i][1], Ref(h[obj.id].items[i][2])>>]
    ELSE obj.items

(* bool(obj) *)
Truthy(h, obj) ==
    CASE obj.k = "none" -> FALSE
      [] obj.k = "ref" -> (~h[obj.id].dict) \/ h[obj.id].items # <<>>
      [] obj.k = "wrap" -> TRUE
      [] OTHER -> obj.items # <<>>

(* obj == {} *)
IsEmptyDict(h, obj) == obj.k # "wrap" /\ ItemsOf(h, obj) = <<>>

(* obj.get("fields") is truthy *)
FieldsTruthy(h, obj) ==
    \/ obj.k = "wrap"
    \/ /\ obj.k # "wrap"
       /\ HasKey(ItemsOf(h, obj), FIELDS)
       /\ Truthy(h, Get(ItemsOf(h, obj), FIELDS))

MetNever(obj, memo) == FALSE

(* id(obj) in memo.  Objects made during the call are referenced once, so  *)
(* their ids never meet again; only heap objects and None are looked up.   *)
Met(obj, memo) == obj.id # FreshId /\ obj.id \in memo

Note(obj, memo) == IF obj.id = FreshId THEN memo ELSE memo \cup {obj.id}

(* fwrap(obj, memo): the value returned and the memo after the call (the   *)
(* memo set is shared by the nested calls, which add to it in place).      *)
RECURSIVE fwrap(_, _, _)
RECURSIVE fwrapItems(_, _, _, _)
fwrap(h, obj, memo) ==
    IF Met(obj, memo) THEN [val |-> None, memo |-> memo]
    ELSE LET m1 == Note(obj, memo) IN
         IF IsDict(h, obj)
         THEN IF IsEmptyDict(h, obj) \/ FieldsTruthy(h, obj)
              THEN [val |-> obj, memo |-> m1]
              ELSE LET r == fwrapItems(h, ItemsOf(h, obj), m1, <<>>) IN
                   IF r.val = <<>>
                   THEN [val |-> None, memo |-> r.memo]
                   ELSE [val |-> Wrapped(r.val), memo |-> r.memo]
         ELSE [val |-> obj, memo |-> m1]

(* [(x, fwrap(y, memo=memo)) for x, y in obj.items()], filtered of None *)
fwrapItems(h, items, memo, acc) ==
    IF items = <<>> THEN [val |-> acc, memo |-> memo]
    ELSE LET r == fwrap(h, Head(items)[2], memo) IN
         fwrapItems(h, Tail(items), r.memo,
                    IF r.val # None THEN Append(acc, <<Head(items)[1], r.val>>)
                    ELSE acc)

(* fwrap(obj): a call with memo=None starts a memo of its own *)
fwrapTop(h, obj) == fwrap(h, obj, {}).val

----------------------------------------------------------------------------
(* get_fields *)

Ok(p, s) == [tag |-> "ok", prefetch |-> p, spec |-> s, field |-> <<>>]
Raise(tag, field) == [tag |-> tag, prefetch |-> {}, spec |-> None, field |-> field]

(* root[x] on a heap object: "ok", "KeyError" or "TypeError" *)
Subscript(h, root, x) ==
    IF ~h[root].dict THEN "TypeError"
    ELSE IF HasKey(h[root].items, x) THEN "ok" ELSE "KeyError"

Child(h, root, x) == Get(h[root].items, x)

(* concrete: the fields without a dot, in order *)
Concrete(fields) == SelectSeq(fields, LAMBDA f : ~Contains(f, "."))

(* subfields: prefix -> the postfixes of the dotted fields, in order *)
RECURSIVE Subfields(_, _)
Subfields(fields, acc) ==
    IF fields = <<>> THEN acc
    ELSE LET f == Head(fields) IN
         IF ~Contains(f, ".") THEN Subfields(Tail(fields), acc)
         ELSE LET p == SplitOnce(f, ".")
                  old == IF HasKey(acc, p[1]) THEN Get(acc, p[1]) ELSE <<>>
              IN  Subfields(Tail(fields), Put(acc, p[1], Append(old, p[2])))

(* {x: fwrap(root[x]) for x in concrete}, a KeyError raised again as a     *)
(* FieldKeyError that carries the KeyError's args, the missing key         *)
RECURSIVE ConcreteRet(_, _, _, _)
ConcreteRet(h, root, concrete, ret) ==
    IF concrete = <<>> THEN Ok({}, NewDict(ret))
    ELSE LET x == Head(concrete)
             s == Subscript(h, root, x)
         IN  CASE s = "KeyError" -> Raise("FieldKeyError", x)
               [] s = "TypeError" -> Raise("TypeError", <<>>)
               [] OTHER ->
                    ConcreteRet(h, root, Tail(concrete),
                                Put(ret, x, fwrapTop(h, Ref(Child(h, root, x)))))

FinalWrap(h, ret) == fwrapTop(h, NewDict(ret))

RECURSIVE get_fields(_, _, _)
RECURSIVE SubfieldsLoop(_, _, _, _, _)
get_fields(h, root, fields) ==
    LET c == ConcreteRet(h, root, Concrete(fields), <<>>) IN
    IF c.tag # "ok" THEN c
    ELSE SubfieldsLoop(h, root, Subfields(fields, <<>>), {}, c.spec.items)

(* for key, fields in subfields.items(): ...; return (prefetch, fwrap(ret)) *)
SubfieldsLoop(h, root, subs, prefetch, ret) ==
    IF subs = <<>> THEN Ok(prefetch, FinalWrap(h, ret))
    ELSE LET key == Head(subs)[1]
             s == Subscript(h, root, key)
         IN  CASE s = "KeyError" -> Raise("KeyError", key)
               [] s = "TypeError" -> Raise("TypeError", <<>>)
               [] OTHER ->
                    LET r == get_fields(h, Child(h, root, key), Head(subs)[2]) IN
                    CASE r.tag = "FieldKeyError" ->
                             Raise("FieldKeyError", DotJoin(key, r.field))
                      [] r.tag = "ok" ->
                             SubfieldsLoop(h, root, Tail(subs),
                                 (prefetch \cup {key})
                                     \cup {UnderJoin(key, x) : x \in r.prefetch},
                                 Put(ret, key, r.spec))
                      [] OTHER -> r

----------------------------------------------------------------------------
(* The projector called on a spec graph with a list of requested paths *)

MaxDepth == 3      \* segments in a requested path
MaxFields == 2     \* requested paths in a call

Leaf == DictNode(<<>>)

(* root = {a: {a: {a: {}, b: {}}}, b: {}}, every object its own *)
TreeHeap ==
    <<DictNode(<<<<A, 2>>, <<B, 3>>>>), DictNode(<<<<A, 4>>>>), Leaf,
      DictNode(<<<<A, 5>>, <<B, 6>>>>), Leaf, Leaf>>
(* L = {}; root = {a: L, b: L} *)
SharedLeafHeap == <<DictNode(<<<<A, 2>>, <<B, 2>>>>), Leaf>>
(* S = {a: {}}; root = {a: {a: S, b: S}, b: {}} *)
SharedSubHeap ==
    <<DictNode(<<<<A, 2>>, <<B, 5>>>>), DictNode(<<<<A, 3>>, <<B, 3>>>>),
      DictNode(<<<<A, 4>>>>), Leaf, Leaf>>
(* root = {b: {}}; root[a] = root *)
SelfCycleHeap == <<DictNode(<<<<A, 1>>, <<B, 2>>>>), Leaf>>
(* root = {a: P}; P = {a: root, b: {}} *)
MutualHeap == <<DictNode(<<<<A, 2>>>>), DictNode(<<<<A, 1>>, <<B, 3>>>>), Leaf>>
(* f = a callable; root = {a: {a: f}, b: f} *)
OpaqueHeap == <<DictNode(<<<<A, 2>>, <<B, 3>>>>), DictNode(<<<<A, 3>>>>), OpaqueNode>>

Heaps == {TreeHeap, SharedLeafHeap, SharedSubHeap, SelfCycleHeap, MutualHeap,
          OpaqueHeap}

Keys == {A, B}

(* the dotted strings of 1..n segments *)
RECURSIVE PathsUpTo(_)
PathsUpTo(n) ==
    IF n = 0 THEN {}
    ELSE Keys \cup PathsUpTo(n - 1)
              \cup {k \o <<".">> \o p : k \in Keys, p \in PathsUpTo(n - 1)}

Paths == PathsUpTo(MaxDepth)

RECURSIVE ListsUpTo(_)
ListsUpTo(n) ==
    IF n = 0 THEN {<<>>}
    ELSE ListsUpTo(n - 1)
             \cup {Append(l, p) : l \in ListsUpTo(n - 1), p \in Paths}

Requests == ListsUpTo(MaxFields)

NoResult == Raise("none", <<>>)


----------------------------------------------------------------------------
(* The endpoints.  request.params is a dict: a function from the keys that *)
(* are present to their string values.                                     *)

Pop(params, k) == [x \in (DOMAIN params) \ {k} |-> params[x]]

cachebusterableKeep(params) == params

(* cachebusterable: drop "_" from request.params before the handler runs *)
cachebusterable(params) ==
    IF "_" \in DOMAIN params THEN Pop(params, "_") ELSE params

Digits == {"0", "1", "2", "3", "4", "5", "6", "7", "8", "9"}

DigitValue(c) ==
    CASE c = "0" -> 0 [] c = "1" -> 1 [] c = "2" -> 2 [] c = "3" -> 3
      [] c = "4" -> 4 [] c = "5" -> 5 [] c = "6" -> 6 [] c = "7" -> 7
      [] c = "8" -> 8 [] c = "9" -> 9

IsDigits(s) == s # <<>> /\ \A i \in 1..Len(s) : s[i] \in Digits

RECURSIVE DigitsValue(_, _)
DigitsValue(s, acc) ==
    IF s = <<>> THEN acc ELSE DigitsValue(Tail(s), 10 * acc + DigitValue(Head(s)))

(* int(s) for the strings drawn here: digits, "-" and digits, or neither   *)
(* (a ValueError)                                                          *)
IntParses(s) == IsDigits(s) \/ (s # <<>> /\ Head(s) = "-" /\ IsDigits(Tail(s)))
IntOf(s) == IF Head(s) = "-" THEN 0 - DigitsValue(Tail(s), 0) ELSE DigitsValue(s, 0)

(* A query set: what was asked of the data source so far *)
QuerySet(filters, order, prefetch) ==
    [filters |-> filters, order |-> order, prefetch |-> prefetch]
NoParams == [x \in {} |-> <<>>]
get_query_set == QuerySet(NoParams, <<>>, {})

(* filter: adjust_filters returns the kwargs as they are, and they are     *)
(* unpacked into data.filter                                               *)
adjust_filters(kwargs) == kwargs
filter(data, kwargs) == [data EXCEPT !.filters = adjust_filters(kwargs)]
(* sort: sort_by is unpacked into data.order_by *)
sort(data, sort_by) == [data EXCEPT !.order = sort_by]
(* data.prefetch_related: a new query set, the old one is left as it was *)
prefetch_related(data, related) == [data EXCEPT !.prefetch = @ \cup related]

(* django.core.paginator.Paginator(data, per_page), orphans 0 and         *)
(* allow_empty_first_page True: num_pages, page(number), Page.end_index()  *)
PaginatorNumPages(count, pp) ==
    LET hits == IF count > 1 THEN count ELSE 1 IN (hits + pp - 1) \div pp

PaginatorEmptyPage(count, pp, number) ==
    \/ number < 1
    \/ number > PaginatorNumPages(count, pp) /\ number # 1

PaginatorPage(data, count, pp, number) ==
    LET bottom == (number - 1) * pp
        top == IF bottom + pp >= count THEN count ELSE bottom + pp
    IN  [source |-> data, bottom |-> bottom, top |-> top, number |-> number]

PageEndIndex(pg, count, pp) ==
    IF pg.number = PaginatorNumPages(count, pp) THEN count ELSE pg.number * pp

(* paginate: paginator.page(page), when it does not raise EmptyPage *)
paginate(data, count, pp, page) == PaginatorPage(data, count, pp, page)

NoMeta == [count |-> -1, page |-> -1, per_page |-> -1, max_page |-> -1,
           total_count |-> -1]
(* items: the objects serialized (source[bottom:top], each with config) and *)
(* the query set that the handler holds as data at the end                 *)
NoItems == [source |-> get_query_set, bottom |-> 0, top |-> 0, config |-> None,
            data |-> get_query_set]

ListMetaNumPages(data_page, page, pp, count) ==
    [count |-> data_page.top - data_page.bottom,
     page |-> page,
     per_page |-> pp,
     max_page |-> PaginatorNumPages(count, pp),
     total_count |-> count]

(* the "meta" dict of the list response *)
ListMeta(data_page, page, pp, count) ==
    [count |-> data_page.top - data_page.bottom,
     page |-> page,
     per_page |-> pp,
     max_page |-> PageEndIndex(data_page, count, pp),
     total_count |-> count]

(* What a handler ends with: Http200, an HttpError(code, message) or an    *)
(* exception that leaves the handler ("raised").  named is the string the  *)
(* error message is formatted with.                                        *)
Outcome(kind, code, exc, named, meta, items, steps, kwargs, fields, res) ==
    [kind |-> kind, code |-> code, exc |-> exc, named |-> named, meta |-> meta,
     items |-> items, steps |-> steps, filter_kwargs |-> kwargs,
     filter_called |-> "filter" \in {steps[i] : i \in 1..Len(steps)},
     fields |-> fields, got |-> res]

NoOutcome == Outcome("none", 0, "", <<>>, NoMeta, NoItems, <<>>, NoParams, <<>>,
                     Raise("none", <<>>))

(* An HTTP request: the endpoint it goes to, its query parameters, and    *)
(* what the data source holds for it (the rows that match the filters, the *)
(* page size of the endpoint, whether the object of the pk exists)         *)
HttpRequest(kind, params, rows, pp, exists) ==
    [kind |-> kind, params |-> params, rows |-> rows, per_page |-> pp,
     exists |-> exists]

NoHttp == HttpRequest("none", NoParams, 0, 1, FALSE)

(* PublicListEndpoint.default_fields, PublicDetailEndpoint.default_fields *)
default_fields == <<>>

(* PublicListEndpoint.get, under @cachebusterable *)
ListGet(h, params0, count, pp) ==
    LET p1 == cachebusterable(params0)
        hasPage == "page" \in DOMAIN p1
        p2 == IF hasPage THEN Pop(p1, "page") ELSE p1
        hasSort == "sort_by" \in DOMAIN p2
        sort_by == IF hasSort THEN Split(p2["sort_by"], ",") ELSE <<>>
        p3 == IF hasSort THEN Pop(p2, "sort_by") ELSE p2
        hasFields == "fields" \in DOMAIN p3
        fields == IF hasFields THEN Split(p3["fields"], ",") ELSE default_fields
        p4 == IF hasFields THEN Pop(p3, "fields") ELSE p3
    IN
    IF hasPage /\ ~IntParses(p1["page"])
    THEN Outcome("raised", 0, "ValueError", <<>>, NoMeta, NoItems, <<>>,
                 NoParams, <<>>, Raise("none", <<>>))
    ELSE
    LET page == IF hasPage THEN IntOf(p1["page"]) ELSE 1
        data == sort(filter(get_query_set, p4), sort_by)
        s4 == <<"get_query_set", "filter", "sort", "paginate">>
    IN
    IF PaginatorEmptyPage(count, pp, page)
    THEN Outcome("HttpError", 404, "EmptyPage", <<>>, NoMeta, NoItems, s4, p4,
                 fields, Raise("none", <<>>))
    ELSE
    LET data_page == paginate(data, count, pp, page)
        r == get_fields(h, 1, fields)
        s5 == Append(s4, "get_fields")
    IN
    CASE r.tag = "FieldKeyError" ->
             Outcome("HttpError", 400, "FieldKeyError", r.field, NoMeta, NoItems,
                     s5, p4, fields, r)
      [] r.tag = "KeyError" ->
             Outcome("HttpError", 400, "KeyError", r.field, NoMeta, NoItems,
                     s5, p4, fields, r)
      [] r.tag = "TypeError" ->
             Outcome("raised", 0, "TypeError", <<>>, NoMeta, NoItems,
                     s5, p4, fields, r)
      [] OTHER ->
             LET data2 == prefetch_related(data, r.prefetch) IN
             Outcome("Http200", 200, "", <<>>,
                     ListMeta(data_page, page, pp, count),
                     [source |-> data_page.source, bottom |-> data_page.bottom,
                      top |-> data_page.top, config |-> r.spec, data |-> data2],
                     s5 \o <<"prefetch_related", "serialize">>, p4, fields, r)

(* PublicDetailEndpoint.get, under @cachebusterable *)
DetailGet(h, params0, exists) ==
    LET p1 == cachebusterable(params0)
        hasFields == "fields" \in DOMAIN p1
        fields == IF hasFields THEN Split(p1["fields"], ",") ELSE default_fields
        r == get_fields(h, 1, fields)
        s1 == <<"get_fields">>
        source == prefetch_related(get_query_set, r.prefetch)
    IN
    IF r.tag # "ok"
    THEN Outcome("raised", 0, r.tag, r.field, NoMeta, NoItems, s1, NoParams,
                 fields, r)
    ELSE IF ~exists
    THEN Outcome("raised", 0, "DoesNotExist", <<>>, NoMeta, NoItems,
                 Append(s1, "prefetch_related"), NoParams, fields, r)
    ELSE Outcome("Http200", 200, "", <<>>, NoMeta,
                 [source |-> source, bottom |-> 0, top |-> 1, config |-> r.spec,
                  data |-> source],
                 s1 \o <<"prefetch_related", "serialize">>, NoParams, fields, r)

----------------------------------------------------------------------------
(* get_fields run one step at a time: the activations of get_fields ("gf") *)
(* and of fwrap ("fw") are the frames of a call stack.                     *)

MaxStack == 8      \* frames the stack may hold
NumNodes == 2      \* objects in a generated spec graph

Frame(kind, root, obj, concrete, subs, items, stage) ==
    [kind |-> kind, root |-> root, obj |-> obj, concrete |-> concrete,
     subs |-> subs, prefetch |-> {}, ret |-> <<>>, items |-> items,
     acc |-> <<>>, key |-> <<>>, stage |-> stage, final |-> None]

(* a call get_fields(root, fields) at its first statement after the split *)
GfFrame(root, fields) ==
    Frame("gf", root, None, Concrete(fields), Subfields(fields, <<>>), <<>>, "loop")

(* a call fwrap(obj, memo) of a dict that it goes through *)
FwFrame(h, obj) == Frame("fw", 0, obj, <<>>, <<>>, ItemsOf(h, obj), "loop")

(* fwrap goes through the items of obj, it does not return obj as it is *)
Expands(h, obj) ==
    IsDict(h, obj) /\ ~(IsEmptyDict(h, obj) \/ FieldsTruthy(h, obj))

Visit(parent, key, obj, met) ==
    [parent |-> parent, key |-> key, id |-> obj.id, met |-> met]

NoRun == [stack |-> <<>>, memo |-> {}, log |-> <<>>, exc |-> Raise("none", <<>>)]

Top == run.stack[Len(run.stack)]
Below == SubSeq(run.stack, 1, Len(run.stack) - 1)
Running == phase = "running" /\ run.stack # <<>>
CanPush == Len(run.stack) < MaxStack

WithTop(f) == [run EXCEPT !.stack = Append(Below, f)]
Push(f, g) == Append(Append(Below, f), g)

(* the targets of the keys a and b of a generated node, 0 when absent *)
ItemsFor(ta, tb) ==
    (IF ta # 0 THEN <<<<A, ta>>>> ELSE <<>>) \o (IF tb # 0 THEN <<<<B, tb>>>> ELSE <<>>)

NodeChoices(n) == {DictNode(ItemsFor(ta, tb)) : ta \in 0..n, tb \in 0..n}

(* every graph of n objects over the keys a and b whose root is a dict *)
GenHeaps(n) ==
    {h \in [1..n -> NodeChoices(n) \cup {OpaqueNode}] : h[1].dict}

(* root = {a: {fields: {a: {}}}, b: {}} *)
FieldsHeap ==
    <<DictNode(<<<<A, 2>>, <<B, 4>>>>), DictNode(<<<<FIELDS, 3>>>>),
      DictNode(<<<<A, 4>>>>), Leaf>>

RunHeaps == GenHeaps(NumNodes) \cup {FieldsHeap, TreeHeap}

RunRequests ==
    {<<>>,
     <<A, B>>,
     <<B, <<"a", ".", "a", ".", "b">>>>,
     <<<<"a", ".", "a">>, A>>,
     <<<<"a", ".", "b">>, <<"b", ".", "a", ".", "a">>>>}

RunInit ==
    /\ heap \in RunHeaps
    /\ request = <<>>
    /\ result = NoResult
    /\ phase = "idle"
    /\ http = NoHttp
    /\ out = NoOutcome
    /\ run = NoRun

(* the call get_fields(root, fields) is made *)
RunStart ==
    /\ phase = "idle"
    /\ \E f \in RunRequests :
          /\ request' = f
          /\ run' = [NoRun EXCEPT !.stack = <<GfFrame(1, f)>>]
    /\ phase' = "running"
    /\ UNCHANGED <<heap, result, http, out>>

(* ret[x] = fwrap(root[x]): root[x] raises *)
GfConcreteRaise ==
    /\ Running /\ Top.kind = "gf" /\ Top.stage = "loop" /\ Top.concrete # <<>>
    /\ LET x == Head(Top.concrete)
           s == Subscript(heap, Top.root, x)
       IN  /\ s # "ok"
           /\ run' = [run EXCEPT !.stack = Below,
                                 !.exc = IF s = "KeyError"
                                         THEN Raise("FieldKeyError", x)
                                         ELSE Raise("TypeError", <<>>)]
    /\ phase' = "raising"
    /\ UNCHANGED <<heap, request, result, http, out>>

(* ret[x] = fwrap(root[x]): fwrap returns root[x] as it is *)
GfConcreteAsIs ==
    /\ Running /\ Top.kind = "gf" /\ Top.stage = "loop" /\ Top.concrete # <<>>
    /\ LET x == Head(Top.concrete) IN
       /\ Subscript(heap, Top.root, x) = "ok"
       /\ LET obj == Ref(Child(heap, Top.root, x)) IN
          /\ ~Expands(heap, obj)
          /\ run' = [WithTop([Top EXCEPT !.concrete = Tail(@),
                                        !.ret = Put(@, x, obj)])
                       EXCEPT !.memo = {}, !.log = <<>>]
    /\ UNCHANGED <<heap, request, result, phase, http, out>>

(* ret[x] = fwrap(root[x]): fwrap starts on the items of root[x] *)
GfConcreteExpand ==
    /\ Running /\ Top.kind = "gf" /\ Top.stage = "loop" /\ Top.concrete # <<>>
    /\ CanPush
    /\ LET x == Head(Top.concrete) IN
       /\ Subscript(heap, Top.root, x) = "ok"
       /\ LET obj == Ref(Child(heap, Top.root, x)) IN
          /\ Expands(heap, obj)
          /\ run' = [run EXCEPT
                       !.stack = Push([Top EXCEPT !.concrete = Tail(@), !.key = x],
                                      FwFrame(heap, obj)),
                       !.memo = Note(obj, {}),
                       !.log = <<Visit(NoneId, <<>>, obj, FALSE)>>]
    /\ UNCHANGED <<heap, request, result, phase, http, out>>

(* fwrap(y, memo=memo) of the next item: id(y) is in the memo *)
FwItemMet ==
    /\ Running /\ Top.kind = "fw" /\ Top.items # <<>>
    /\ LET k == Head(Top.items)[1]
           y == Head(Top.items)[2]
       IN  /\ Met(y, run.memo)
           /\ run' = [WithTop([Top EXCEPT !.items = Tail(@)])
                        EXCEPT !.log = Append(@, Visit(Top.obj.id, k, y, TRUE))]
    /\ UNCHANGED <<heap, request, result, phase, http, out>>

(* fwrap(y, memo=memo) of the next item returns y as it is *)
FwItemAsIs ==
    /\ Running /\ Top.kind = "fw" /\ Top.items # <<>>
    /\ LET k == Head(Top.items)[1]
           y == Head(Top.items)[2]
       IN  /\ ~Met(y, run.memo)
           /\ ~Expands(heap, y)
           /\ run' = [WithTop([Top EXCEPT
                                 !.items = Tail(@),
                                 !.acc = IF y # None THEN Append(@, <<k, y>>) ELSE @])
                        EXCEPT !.memo = Note(y, @),
                               !.log = Append(@, Visit(Top.obj.id, k, y, FALSE))]
    /\ UNCHANGED <<heap, request, result, phase, http, out>>

(* fwrap(y, memo=memo) of the next item starts on the items of y *)
FwItemExpand ==
    /\ Running /\ Top.kind = "fw" /\ Top.items # <<>>
    /\ CanPush
    /\ LET k == Head(Top.items)[1]
           y == Head(Top.items)[2]
       IN  /\ ~Met(y, run.memo)
           /\ Expands(heap, y)
           /\ run' = [run EXCEPT
                        !.stack = Push([Top EXCEPT !.items = Tail(@), !.key = k],
                                       FwFrame(heap, y)),
                        !.memo = Note(y, @),
                        !.log = Append(@, Visit(Top.obj.id, k, y, FALSE))]
    /\ UNCHANGED <<heap, request, result, phase, http, out>>

(* fwrap returns None or {"fields": [...]} to the call that made it *)
FwReturn ==
    /\ Running /\ Top.kind = "fw" /\ Top.items = <<>>
    /\ LET value == IF Top.acc = <<>> THEN None ELSE Wrapped(Top.acc)
           P == run.stack[Len(run.stack) - 1]
           P2 == CASE P.kind = "fw" ->
                        [P EXCEPT !.acc = IF value # None
                                          THEN Append(@, <<P.key, value>>) ELSE @]
                   [] P.kind = "gf" /\ P.stage = "loop" ->
                        [P EXCEPT !.ret = Put(@, P.key, value)]
                   [] OTHER ->
                        [P EXCEPT !.stage = "return", !.final = value]
       IN  run' = [run EXCEPT !.stack = Append(SubSeq(Below, 1, Len(Below) - 1), P2)]
    /\ UNCHANGED <<heap, request, result, phase, http, out>>

(* get_fields(root[key], fields): root[key] raises *)
GfSubRaise ==
    /\ Running /\ Top.kind = "gf" /\ Top.stage = "loop"
    /\ Top.concrete = <<>> /\ Top.subs # <<>>
    /\ LET key == Head(Top.subs)[1]
           s == Subscript(heap, Top.root, key)
       IN  /\ s # "ok"
           /\ run' = [run EXCEPT !.stack = Below,
                                 !.exc = IF s = "KeyError"
                                         THEN Raise("KeyError", key)
                                         ELSE Raise("TypeError", <<>>)]
    /\ phase' = "raising"
    /\ UNCHANGED <<heap, request, result, http, out>>

(* prefetch.add(key); get_fields(root[key], fields) is called *)
GfSubCall ==
    /\ Running /\ Top.kind = "gf" /\ Top.stage = "loop"
    /\ Top.concrete = <<>> /\ Top.subs # <<>>
    /\ CanPush
    /\ LET key == Head(Top.subs)[1] IN
       /\ Subscript(heap, Top.root, key) = "ok"
       /\ run' = [run EXCEPT
                    !.stack = Push([Top EXCEPT !.subs = Tail(@), !.key = key,
                                               !.prefetch = @ \cup {key}],
                                   GfFrame(Child(heap, Top.root, key),
                                           Head(Top.subs)[2]))]
    /\ UNCHANGED <<heap, request, result, phase, http, out>>

(* return (prefetch, fwrap(ret)): fwrap returns ret as it is *)
GfFinalAsIs ==
    /\ Running /\ Top.kind = "gf" /\ Top.stage = "loop"
    /\ Top.concrete = <<>> /\ Top.subs = <<>>
    /\ ~Expands(heap, NewDict(Top.ret))
    /\ run' = WithTop([Top EXCEPT !.stage = "return", !.final = NewDict(Top.ret)])
    /\ UNCHANGED <<heap, request, result, phase, http, out>>

(* return (prefetch, fwrap(ret)): fwrap starts on the items of ret *)
GfFinalExpand ==
    /\ Running /\ Top.kind = "gf" /\ Top.stage = "loop"
    /\ Top.concrete = <<>> /\ Top.subs = <<>>
    /\ CanPush
    /\ Expands(heap, NewDict(Top.ret))
    /\ run' = [run EXCEPT
                 !.stack = Push([Top EXCEPT !.stage = "final"],
                                FwFrame(heap, NewDict(Top.ret))),
                 !.memo = Note(NewDict(Top.ret), {}),
                 !.log = <<Visit(NoneId, <<>>, NewDict(Top.ret), FALSE)>>]
    /\ UNCHANGED <<heap, request, result, phase, http, out>>

(* get_fields returns to the get_fields that called it, or to the caller *)
GfReturn ==
    /\ Running /\ Top.kind = "gf" /\ Top.stage = "return"
    /\ IF Len(run.stack) = 1
       THEN /\ run' = [run EXCEPT !.stack = <<>>, !.memo = {}, !.log = <<>>]
            /\ result' = Ok(Top.prefetch, Top.final)
            /\ phase' = "done"
       ELSE LET P == run.stack[Len(run.stack) - 1]
                P2 == [P EXCEPT
                         !.prefetch = @ \cup {UnderJoin(P.key, x) : x \in Top.prefetch},
                         !.ret = Put(@, P.key, Top.final)]
            IN  /\ run' = [run EXCEPT
                             !.stack = Append(SubSeq(Below, 1, Len(Below) - 1), P2),
                             !.memo = {}, !.log = <<>>]
                /\ UNCHANGED <<result, phase>>
    /\ UNCHANGED <<heap, request, http, out>>

(* an exception leaves a get_fields that was called by get_fields, which   *)
(* puts its key before the field of a FieldKeyError; or it leaves the call *)
Unwind ==
    /\ phase = "raising"
    /\ IF run.stack = <<>>
       THEN /\ result' = run.exc
            /\ phase' = "done"
            /\ run' = [run EXCEPT !.exc = Raise("none", <<>>)]
       ELSE /\ run' = [run EXCEPT
                         !.stack = Below,
                         !.exc = IF @.tag = "FieldKeyError"
                                 THEN Raise("FieldKeyError", DotJoin(Top.key, @.field))
                                 ELSE @]
            /\ UNCHANGED <<result, phase>>
    /\ UNCHANGED <<heap, request, http, out>>

RunNext ==
    \/ RunStart
    \/ GfConcreteRaise \/ GfConcreteAsIs \/ GfConcreteExpand
    \/ FwItemMet \/ FwItemAsIs \/ FwItemExpand \/ FwReturn
    \/ GfSubRaise \/ GfSubCall
    \/ GfFinalAsIs \/ GfFinalExpand \/ GfReturn
    \/ Unwind

(* the interpreter takes the next step of the call as long as there is one *)
RunSpec == RunInit /\ [][RunNext]_vars /\ WF_vars(RunNext)

(* the stepped call ends with what the operator get_fields computes *)
StepsAgreeWithGetFields ==
    phase = "done" => result = get_fields(heap, 1, request)

----------------------------------------------------------------------------
(* The requests served by the endpoints *)

MaxRows == 5       \* rows that match the filters
MaxPerPage == 3    \* page sizes of the subclasses
MaxPage == 4       \* page numbers requested
per_page == 100    \* PublicListEndpoint.per_page

DigitChars == <<"0", "1", "2", "3", "4", "5", "6", "7", "8", "9">>

PageStrings ==
    {<<DigitChars[n + 1]>> : n \in 0..MaxPage} \cup {<<"-", "1">>, <<"x">>}

SortStrings == {<<"-", "n", ",", "m">>}

FieldStrings ==
    {A,
     <<"b", ",", "a", ".", "a", ".", "b">>,
     <<"a", ".", "b">>,
     <<"a", ".", "a", ".", "b">>,
     <<"a", ".", "b", ".", "a">>,
     <<"b", ".", "a", ",", "a">>}

Absent == <<"absent">>

ParamKeys == {"_", "page", "sort_by", "fields", "status"}

BuildParams(u, pg, so, fi, st) ==
    LET all == [k \in ParamKeys |->
                   CASE k = "_" -> u
                     [] k = "page" -> pg
                     [] k = "sort_by" -> so
                     [] k = "fields" -> fi
                     [] OTHER -> st]
    IN  [k \in {x \in ParamKeys : all[x] # Absent} |-> all[k]]

ListParams ==
    {BuildParams(u, pg, so, fi, st) :
        u \in {Absent, <<"1">>}, pg \in {Absent} \cup PageStrings,
        so \in {Absent} \cup SortStrings, fi \in {Absent} \cup FieldStrings,
        st \in {Absent, A}}

DetailParams ==
    {BuildParams(u, Absent, Absent, fi, Absent) :
        u \in {Absent, <<"1">>}, fi \in {Absent} \cup FieldStrings}

ListRequests ==
    {HttpRequest("list", ps, n, pp, TRUE) :
        ps \in ListParams, n \in (0..MaxRows) \cup {250},
        pp \in (1..MaxPerPage) \cup {per_page}}

DetailRequests ==
    {HttpRequest("detail", ps, 1, 1, e) : ps \in DetailParams, e \in BOOLEAN}

(* the serialize_config of the endpoints *)
Configs == {TreeHeap, OpaqueHeap}

EndpointInit ==
    /\ heap \in Configs
    /\ http \in ListRequests \cup DetailRequests
    /\ request = <<>>
    /\ result = NoResult
    /\ phase = "idle"
    /\ out = NoOutcome
    /\ run = NoRun

HandleList ==
    /\ phase = "idle"
    /\ http.kind = "list"
    /\ out' = ListGet(heap, http.params, http.rows, http.per_page)
    /\ request' = out'.fields
    /\ result' = out'.got
    /\ phase' = "done"
    /\ UNCHANGED <<heap, http, run>>

HandleDetail ==
    /\ phase = "idle"
    /\ http.kind = "detail"
    /\ out' = DetailGet(heap, http.params, http.exists)
    /\ request' = out'.fields
    /\ result' = out'.got
    /\ phase' = "done"
    /\ UNCHANGED <<heap, http, run>>

EndpointNext == HandleList \/ HandleDetail

EndpointSpec == EndpointInit /\ [][EndpointNext]_vars

----------------------------------------------------------------------------
(* The projector alone: one call on any of the spec graphs *)

Init ==
    /\ heap \in Heaps
    /\ request = <<>>
    /\ result = NoResult
    /\ phase = "idle"
    /\ http = NoHttp
    /\ out = NoOutcome
    /\ run = NoRun

(* related, config = get_fields(root, fields) *)
CallGetFields ==
    /\ phase = "idle"
    /\ \E f \in Requests :
          /\ request' = f
          /\ result' = get_fields(heap, 1, f)
    /\ phase' = "done"
    /\ UNCHANGED <<heap, http, out, run>>

Next == CallGetFields

Spec == Init /\ [][Next]_vars

----------------------------------------------------------------------------
(* What a requested path means on the spec graph, for stating the claims *)

Segments(s) == Split(s, ".")

RECURSIVE JoinSegments(_, _)
JoinSegments(segs, sep) ==
    IF Len(segs) = 1 THEN segs[1]
    ELSE segs[1] \o sep \o JoinSegments(Tail(segs), sep)

(* the first segment of segs[i..] that cannot be followed from node n *)
RECURSIVE Diagnose(_, _, _, _)
Diagnose(h, n, segs, i) ==
    IF i > Len(segs) THEN [kind |-> "valid", at |-> 0, node |-> n]
    ELSE IF ~h[n].dict THEN [kind |-> "notdict", at |-> i, node |-> n]
    ELSE IF ~HasKey(h[n].items, segs[i]) THEN [kind |-> "absent", at |-> i, node |-> n]
    ELSE Diagnose(h, Child(h, n, segs[i]), segs, i + 1)

PathKind(h, s) == Diagnose(h, 1, Segments(s), 1)

ValidPath(h, s) == PathKind(h, s).kind = "valid"
(* every segment but the last is there, the last is absent from its mapping *)
MissingLast(h, s) ==
    PathKind(h, s).kind = "absent" /\ PathKind(h, s).at = Len(Segments(s))
(* a segment before the last is absent from its mapping *)
MissingPrefix(h, s) ==
    PathKind(h, s).kind = "absent" /\ PathKind(h, s).at < Len(Segments(s))

Range(f) == {f[i] : i \in DOMAIN f}

AllValid(h, fields) == \A s \in Range(fields) : ValidPath(h, s)

Successors(h, n) == {h[n].items[i][2] : i \in 1..Len(h[n].items)}

RECURSIVE ReachWithin(_, _, _)
ReachWithin(h, S, n) ==
    IF n = 0 THEN S
    ELSE ReachWithin(h, S \cup UNION {Successors(h, m) : m \in S}, n - 1)

Descendants(h, n) == ReachWithin(h, Successors(h, n), Len(h))

Acyclic(h) == \A n \in 1..Len(h) : n \notin Descendants(h, n)

(* the field names of a pruned spec, as paths of names *)
RECURSIVE NamePaths(_)
NamePaths(v) ==
    IF v.k # "wrap" THEN {}
    ELSE UNION {{<<v.items[i][1]>>}
                  \cup {<<v.items[i][1]>> \o p : p \in NamePaths(v.items[i][2])}
                : i \in 1..Len(v.items)}

IsPrefix(p, q) == Len(p) <= Len(q) /\ SubSeq(q, 1, Len(p)) = p

RequestedPaths(fields) == {Segments(s) : s \in Range(fields)}

----------------------------------------------------------------------------
(* Claims about the projector, checked under Spec *)

Done == phase = "done"

(* C1: on a spec graph without cycles (objects may be shared) and a valid  *)
(* request, the pruned spec holds every requested path, holds no name that  *)
(* is neither on a requested path nor under a requested relation, and a     *)
(* relation requested without a longer path brings all of its own fields.   *)
C1_ExactProjection ==
    (Done /\ Acyclic(heap) /\ AllValid(heap, request)) =>
        /\ result.tag = "ok"
        /\ \A r \in RequestedPaths(request) : r \in NamePaths(result.spec)
        /\ \A p \in NamePaths(result.spec) :
               \E r \in RequestedPaths(request) : IsPrefix(p, r) \/ IsPrefix(r, p)
        /\ \A s \in Range(request) :
               (\A r \in RequestedPaths(request) :
                     IsPrefix(Segments(s), r) => r = Segments(s))
               => \A k \in {heap[PathKind(heap, s).node].items[i][1] :
                               i \in 1..Len(heap[PathKind(heap, s).node].items)} :
                     Append(Segments(s), k) \in NamePaths(result.spec)

C3_MissingPrefixQualified ==
    (/\ Done
     /\ \E s \in Range(request) : MissingPrefix(heap, s)
     /\ \A s, t \in Range(request) :
           /\ ValidPath(heap, s) \/ MissingPrefix(heap, s)
           /\ (MissingPrefix(heap, s) /\ MissingPrefix(heap, t)) => s = t)
    => /\ result.tag = "FieldKeyError"
       /\ \E s \in Range(request) :
             /\ MissingPrefix(heap, s)
             /\ result.field =
                    JoinSegments(SubSeq(Segments(s), 1, PathKind(heap, s).at), <<".">>)

SameEntries(f, g) == Range(f) = Range(g)

(* C5: a valid request gives the same prefetch set and the same field names *)
(* at every level as any request with the same entries in another order or  *)
(* with entries repeated.                                                   *)
C5_OrderIndependent ==
    (Done /\ AllValid(heap, request)) =>
        \A other \in Requests :
            SameEntries(other, request) =>
                LET o == get_fields(heap, 1, other) IN
                /\ o.tag = result.tag
                /\ o.prefetch = result.prefetch
                /\ NamePaths(o.spec) = NamePaths(result.spec)

ProperPrefixes(segs) == {SubSeq(segs, 1, j) : j \in 1..(Len(segs) - 1)}

ExpectedPrefetch(fields) ==
    {JoinSegments(p, <<"_", "_">>) :
        p \in UNION {ProperPrefixes(r) : r \in RequestedPaths(fields)}}

(* C10: for a valid request the prefetch set is exactly the proper prefixes *)
(* of the requested paths, joined with "__"; nothing for undotted names.    *)
C10_PrefetchIsProperPrefixes ==
    (Done /\ AllValid(heap, request)) =>
        /\ result.tag = "ok"
        /\ result.prefetch = ExpectedPrefetch(request)

C10_Witness ==
    /\ Done
    /\ AllValid(heap, request)
    /\ result.tag = "ok"
    /\ \E s \in Range(request) : Len(Segments(s)) = 3
    /\ \E s \in Range(request) : Len(Segments(s)) = 1
    /\ Cardinality(result.prefetch) = 2

----------------------------------------------------------------------------
(* Claims about the endpoints, checked under EndpointSpec *)

OnlyMissingLast(h, fields) ==
    /\ \E s \in Range(fields) : MissingLast(h, s)
    /\ \A s \in Range(fields) : ValidPath(h, s) \/ MissingLast(h, s)

PageParses == "page" \notin DOMAIN http.params \/ IntParses(http.params["page"])
PageAsked == IF "page" \in DOMAIN http.params THEN IntOf(http.params["page"]) ELSE 1
LastPage ==
    LET c == (http.rows + http.per_page - 1) \div http.per_page
    IN  IF c > 1 THEN c ELSE 1
PageInRange == PageParses /\ 1 <= PageAsked /\ PageAsked <= LastPage
Min(x, y) == IF x <= y THEN x ELSE y

(* C6: a request whose fields name a path whose last segment is not in the *)
(* spec tree ends as HttpError 400 whose message names that path, on the    *)
(* list endpoint (page in range) and on the detail endpoint alike.          *)
C6_InvalidFieldIs400 ==
    (/\ Done
     /\ OnlyMissingLast(heap, out.fields)
     /\ http.kind = "list" => PageInRange)
    => /\ out.kind = "HttpError"
       /\ out.code = 400
       /\ \E s \in Range(out.fields) : MissingLast(heap, s) /\ out.named = s

(* C7: on the list endpoint, with N rows, page size P and requested page p: *)
(* when 1 <= p <= max(1, ceil(N/P)) a response carries count = min(P,       *)
(* N-(p-1)P), page = p, per_page = P, max_page = min(pP, N), total_count =  *)
(* N, and a valid request gets that response; otherwise the answer is 404.  *)
C7_PaginationMeta ==
    (Done /\ http.kind = "list" /\ PageParses) =>
        IF PageInRange
        THEN /\ AllValid(heap, out.fields) => out.kind = "Http200"
             /\ out.kind = "Http200" =>
                   out.meta = [count |-> Min(http.per_page,
                                             http.rows - (PageAsked - 1) * http.per_page),
                               page |-> PageAsked,
                               per_page |-> http.per_page,
                               max_page |-> Min(PageAsked * http.per_page, http.rows),
                               total_count |-> http.rows]
        ELSE out.kind = "HttpError" /\ out.code = 404

C7_Witness ==
    /\ Done
    /\ http.kind = "list"
    /\ http.rows = 250
    /\ http.per_page = 100
    /\ out.kind = "Http200"
    /\ out.meta.page = 3
    /\ out.meta.count = 50
    /\ out.meta.max_page = 250

ControlKeys == {"_", "page", "sort_by", "fields"}

(* C8: on the list endpoint the filter step is called whenever the page     *)
(* parameter is a number, and it receives the request's parameters without  *)
(* "_", "page", "sort_by" and "fields", every other key with its value.     *)
C8_FilterSeesOnlyFilters ==
    (Done /\ http.kind = "list") =>
        /\ PageParses => out.filter_called
        /\ out.filter_called =>
              out.filter_kwargs =
                  [k \in (DOMAIN http.params) \ ControlKeys |-> http.params[k]]

C8_Witness ==
    /\ Done
    /\ http.kind = "list"
    /\ ControlKeys \cup {"status"} \subseteq DOMAIN http.params
    /\ out.filter_called
    /\ DOMAIN out.filter_kwargs = {"status"}
    /\ out.items.source.filters = out.filter_kwargs

(* C9: a list response comes from the steps filter, sort, paginate,         *)
(* project, eager-load, serialize in this order, and, like the detail       *)
(* response, its serialized items are drawn from a data source to which the *)
(* projector's prefetch set has been applied.                               *)
C9_PrefetchReachesSerialized ==
    (Done /\ out.kind = "Http200" /\ out.items.top > out.items.bottom) =>
        /\ http.kind = "list" =>
              out.steps = <<"get_query_set", "filter", "sort", "paginate",
                            "get_fields", "prefetch_related", "serialize">>
        /\ out.items.source.prefetch = out.got.prefetch

----------------------------------------------------------------------------
(* Claims about the call run step by step, checked under RunSpec *)

(* within one normalisation, an object that was noted before is met, and    *)
(* only such an object is *)
RevisitsAreMet ==
    \A j \in 1..Len(run.log) :
        run.log[j].met <=>
            /\ run.log[j].id # FreshId
            /\ \E i \in 1..(j - 1) : run.log[i].id = run.log[j].id

(* the key of an object that was met is not in the list of its parent *)
MetKeysLeftOut ==
    \A d \in 1..Len(run.stack) : \A j \in 1..Len(run.log) :
        (/\ run.stack[d].kind = "fw"
         /\ run.log[j].met
         /\ run.log[j].parent = run.stack[d].obj.id)
        => ~HasKey(run.stack[d].acc, run.log[j].key)

(* C4: on every spec graph, with references of an object to itself or to an *)
(* ancestor, the call ends; the stack stays below its cap; during one       *)
(* normalisation an object met again gives None and its key is left out.    *)
C4_TerminatesAndDropsRevisits ==
    /\ <>(phase = "done")
    /\ [](Len(run.stack) < MaxStack /\ RevisitsAreMet /\ MetKeysLeftOut)

C4_Witness ==
    /\ phase = "done"
    /\ result.tag = "ok"
    /\ Subscript(heap, 1, A) = "ok"
    /\ Child(heap, 1, A) = 1
    /\ request = <<A, B>>
    /\ <<A, B>> \in NamePaths(result.spec)
    /\ <<A, A>> \notin NamePaths(result.spec)

====
